---------------------------- MODULE Spec2Model ----------------------------
(***************************************************************************)
(* Customer-support chat backend: the realtime relay (socket handlers of   *)
(* initSocket) together with the REST handlers that write the rows the     *)
(* relay reads (chat close / reopen, ban, user delete, settings).          *)
(*                                                                         *)
(* Granularity.  Node runs one handler step at a time and a handler can    *)
(* only be interleaved at an `await`.  Every action below is one store     *)
(* operation (the awaited prisma call, taking effect atomically in the     *)
(* database) followed by the synchronous code that runs up to the next     *)
(* await.  `step` holds the socket.io emissions of the last action; the     *)
(* field `to` of an emission is the set of connections it is addressed to  *)
(* (the socket itself for socket.emit, the members of the room for         *)
(* io.to(room).emit).                                                      *)
(***************************************************************************)
EXTENDS Integers, Sequences, FiniteSets, TLC

-----------------------------------------------------------------------------
(* Bounds of the model *)

\* send-message events received in one behaviour
MaxSends == 2
\* other events in one behaviour: REST requests that write to the store,
\* join-chat, disconnect, and store operations that fail
MaxEvents == 2

-----------------------------------------------------------------------------
(* Finite universes *)

ChatIds == {"c1", "c2"}
UserIds == {"u1", "u2", "a1"}
Sockets == {"s1", "s2"}
\* handler activations of send-message that can be in flight at the same time
Slots == {"h1", "h2"}

\* JavaScript undefined / null (a missing payload field, a findUnique miss)
Undefined == "undefined"

\* Strings are sequences of characters, so that trim() is computed
Blank == <<" ">>
Hi == <<" ", "h", "i", " ">>
Welcome == <<"o", "k", " ">>
Contents == {<<>>, Blank, Hi}

\* the guest user created together with a chat by POST /chat/start
OwnerOf(c) == IF c = "c1" THEN "u1" ELSE "u2"

-----------------------------------------------------------------------------
(* Pure helpers *)

IsSpace(ch) == ch = " "

RECURSIVE TrimStart(_)
TrimStart(s) ==
    IF s = <<>> THEN <<>>
    ELSE IF IsSpace(Head(s)) THEN TrimStart(Tail(s)) ELSE s

RECURSIVE TrimEnd(_)
TrimEnd(s) ==
    IF s = <<>> THEN <<>>
    ELSE IF IsSpace(s[Len(s)]) THEN TrimEnd(SubSeq(s, 1, Len(s) - 1)) ELSE s

\* String.prototype.trim
Trim(s) == TrimEnd(TrimStart(s))

\* An optional string: None when the field is undefined / null
None == <<>>
Some(s) == <<s>>

\* !payload.content || payload.content.trim().length === 0
ContentMissing(content) ==
    \/ content = None
    \/ content[1] = <<>>
    \/ Len(Trim(content[1])) = 0

\* payload.sender === "ADMIN" || payload.isBot === true
IsAdminFlag(payload) == payload.sender = "ADMIN" \/ payload.isBot = TRUE

\* message.isBot ? "ADMIN" : "USER"
SenderOf(isBot) == IF isBot THEN "ADMIN" ELSE "USER"

-----------------------------------------------------------------------------
(* State *)

VARIABLES
    users,        \* table users: id -> [exists, role, isBanned]
    chats,        \* table chat_sessions: id -> [exists, status, closedAt, userId]
    messages,     \* table messages, in creation (createdAt) order
    settings,     \* table admin_settings: None or Some(row)
    nextMsgId,    \* number of message ids handed out so far
    rooms,        \* socket -> set of rooms joined (socket.join)
    connected,    \* socket -> TRUE until its disconnect
    handlers,     \* slot -> activation of the send-message handler
    timers,       \* pending setTimeout callbacks of the auto-response
    sends,        \* send-message events received so far
    events,       \* REST writes, socket events and store failures so far
    step,         \* the last action, when it emitted or ended an activation:
                  \* its emissions and the activation as it ended
    http          \* the GET /chat/:id request in progress, or its response

vars == <<users, chats, messages, settings, nextMsgId, rooms, connected,
          handlers, timers, sends, events, step, http>>

store == <<users, chats, messages, settings, nextMsgId>>

\* interface SendMessagePayload
Payloads ==
    { p \in [chatId : ChatIds \cup {Undefined},
             content : {None} \cup {Some(s) : s \in Contents},
             userId : {Undefined, "u2"},
             isBot : BOOLEAN,
             sender : {"USER", "ADMIN"}] :
        /\ ~(p.sender = "ADMIN" /\ p.isBot)
        \* a payload without chatId is rejected before any other field is read
        /\ p.chatId = Undefined =>
              p.content = None /\ p.userId = Undefined /\ p.sender = "USER" /\ ~p.isBot
        \* the second chat receives plain visitor messages
        /\ p.chatId = "c2" =>
              p.content = Some(Hi) /\ p.userId = Undefined /\ p.sender = "USER" /\ ~p.isBot }

\* Two activations are in flight together only with payloads of this shape
\* (a well-formed visitor or admin message for chat c1); every other payload
\* is explored with one activation at a time, interleaved with REST requests,
\* socket events and timers.
RacePayload(p) ==
    p.chatId = "c1" /\ p.content = Some(Hi) /\ p.userId = Undefined /\ ~p.isBot

NoPayload ==
    [chatId |-> Undefined, content |-> None, userId |-> Undefined,
     isBot |-> FALSE, sender |-> "USER"]

\* a row of table messages; inv and src record which activation created it
\* (src "send": the pipeline, src "timer": the auto-response callback)
NoMessage ==
    [id |-> 0, chatId |-> Undefined, userId |-> Undefined, content |-> <<>>,
     isBot |-> FALSE, createdAt |-> 0, inv |-> 0, src |-> Undefined]

\* the locals of one activation of the send-message handler:
\*   userId, existing (status read at line 46), message (row returned by create);
\*   signals lists the events this activation emitted on its own socket
IdleHandler ==
    [pc |-> "idle", inv |-> 0, socket |-> Undefined, payload |-> NoPayload,
     userId |-> Undefined, existing |-> Undefined, message |-> NoMessage,
     signals |-> <<>>]

NoStep == [action |-> "none", inv |-> 0, call |-> IdleHandler, emits |-> <<>>]

ChatRow(status, closedAt, userId) ==
    [exists |-> TRUE, status |-> status, closedAt |-> closedAt, userId |-> userId]
NoChat == [exists |-> FALSE, status |-> Undefined, closedAt |-> FALSE, userId |-> Undefined]

UserRow(role, isBanned) == [exists |-> TRUE, role |-> role, isBanned |-> isBanned]
NoUser == [exists |-> FALSE, role |-> Undefined, isBanned |-> FALSE]

\* io.to(room): the sockets that joined the room
Room(c) == {s \in Sockets : c \in rooms[s]}

-----------------------------------------------------------------------------
(* Emissions *)

\* messageResponse / autoMessageResponse
Response(m, sender) ==
    [id |-> m.id, content |-> m.content, isBot |-> m.isBot, sender |-> sender,
     userId |-> m.userId]
NoResponse ==
    [id |-> 0, content |-> <<>>, isBot |-> FALSE, sender |-> Undefined,
     userId |-> Undefined]

\* one emit: the event, the sockets it is addressed to, and its payload fields
Emission(ev, to, chatId, text, messageId, body) ==
    [ev |-> ev, to |-> to, chatId |-> chatId, text |-> text,
     messageId |-> messageId, message |-> body, reason |-> ""]

\* mutant: the event goes to the room of the chat as well (io.to(chatId).emit)
Private_ToRoom(call, ev, chatId, text) ==
    Emission(ev, {call.socket} \cup Room(call.payload.chatId), chatId, text, 0,
             NoResponse)

\* socket.emit(ev, ...) on the socket of the activation
Private(call, ev, chatId, text) ==
    Emission(ev, {call.socket}, chatId, text, 0, NoResponse)

\* socket.emit("message-sent", {chatId, messageId})
Ack(call) ==
    Emission("message-sent", {call.socket}, call.payload.chatId, "",
             call.message.id, NoResponse)

\* mutant: io.emit, every connected socket whatever its rooms
Broadcast_ToAll(chatId, body) ==
    Emission("receive-message", {s \in Sockets : connected[s]}, chatId, "", 0, body)

\* io.to(chatId).emit("receive-message", {chatId, message})
Broadcast(chatId, body) ==
    Emission("receive-message", Room(chatId), chatId, "", 0, body)

ChatIdRequired == "Chat ID is required"
ChatNotFound == "Chat not found"
ChatClosedReason == "Chat has been closed"
BannedText == "You are banned from sending messages"
AdminNotFound == "Admin user not found"
UserIdRequired == "User ID is required"
ContentRequired == "Message content is required"
FailedToSend == "Failed to send message"
ClosedByAdminText == "This chat has been closed by an administrator"

\* a return after socket.emit(ev, ...): the activation ends
Reject(call, ev, chatId, text) ==
    [call |-> [call EXCEPT !.pc = "done", !.signals = Append(@, ev)],
     emits |-> <<Private(call, ev, chatId, text)>>]

\* mutant: no try/catch around the pipeline, the rejection is unhandled
Catch_Unhandled(call) == [call |-> [call EXCEPT !.pc = "done"], emits |-> <<>>]

\* the catch block of the handler
Catch(call) == Reject(call, "chat-error", Undefined, FailedToSend)

Continue(call, pc) == [call |-> [call EXCEPT !.pc = pc], emits |-> <<>>]

\* mutant: the content check without trim()
Validate_NoTrim(call) ==
    IF call.userId = Undefined
    THEN Reject(call, "chat-error", Undefined, UserIdRequired)
    ELSE IF call.payload.content = None \/ call.payload.content[1] = <<>>
    THEN Reject(call, "chat-error", Undefined, ContentRequired)
    ELSE Continue(call, "createMessage")

\* lines 92-101: the checks between author resolution and message.create
Validate(call) ==
    IF call.userId = Undefined
    THEN Reject(call, "chat-error", Undefined, UserIdRequired)
    ELSE IF ContentMissing(call.payload.content)
    THEN Reject(call, "chat-error", Undefined, ContentRequired)
    ELSE Continue(call, "createMessage")

\* the activation in slot h moves on as res says
Commit(h, name, res) ==
    /\ handlers' = [handlers EXCEPT
                      ![h] = IF res.call.pc = "done" THEN IdleHandler ELSE res.call]
    /\ step' = IF res.call.pc = "done" \/ res.emits # <<>>
               THEN [action |-> name, inv |-> res.call.inv, call |-> res.call,
                     emits |-> res.emits]
               ELSE NoStep
    /\ UNCHANGED http

FreeSlots == {h \in Slots : handlers[h].pc = "idle"}
\* activations are interchangeable: a new one takes the first free slot
FirstFree == CHOOSE h \in FreeSlots : \A g \in FreeSlots : h = "h1" \/ g # "h1"

AdminUsers == {u \in UserIds : users[u].exists /\ users[u].role = "ADMIN"}

BotCount(c) == Cardinality({k \in 1..Len(messages) : messages[k].chatId = c /\ messages[k].isBot})

-----------------------------------------------------------------------------
(* socket.on("send-message"): one action per awaited store operation *)

\* the event arrives; lines 28-44 run up to the first await
SendMessage(s, p) ==
    /\ sends < MaxSends
    /\ connected[s]
    /\ FreeSlots # {}
    /\ \/ FreeSlots = Slots
       \/ /\ RacePayload(p)
          /\ \A h \in Slots \ FreeSlots : RacePayload(handlers[h].payload)
    /\ LET call == [IdleHandler EXCEPT !.pc = "findChat", !.inv = sends + 1,
                      !.socket = s, !.payload = p, !.userId = p.userId]
           res == IF p.chatId = Undefined
                  THEN Reject(call, "chat-error", Undefined, ChatIdRequired)
                  ELSE Continue(call, "findChat")
       IN Commit(FirstFree, "SendMessage", res)
    /\ sends' = sends + 1
    /\ UNCHANGED <<store, rooms, connected, timers, events>>

\* a payload that is not an object: reading payload.chatId throws inside the try
SendMalformed(s) ==
    /\ sends < MaxSends
    /\ connected[s]
    /\ FreeSlots = Slots
    /\ LET call == [IdleHandler EXCEPT !.pc = "findChat", !.inv = sends + 1,
                      !.socket = s]
       IN Commit(FirstFree, "SendMalformed", Catch(call))
    /\ sends' = sends + 1
    /\ UNCHANGED <<store, rooms, connected, timers, events>>

\* mutant: no check of existing.status
FindChatResult_NoClosedCheck(call) ==
    LET c == call.payload.chatId
        row == chats[c]
        read == [call EXCEPT !.existing = IF row.exists THEN row.status ELSE Undefined]
    IN  IF ~row.exists
        THEN Reject(read, "chat-error", Undefined, ChatNotFound)
        ELSE IF ~IsAdminFlag(call.payload)
        THEN Continue([read EXCEPT !.userId = row.userId], "findUser")
        ELSE IF call.userId = Undefined
        THEN Continue(read, "findAdmin")
        ELSE Validate(read)

\* mutant: a visitor's payload.userId is kept when it is given
FindChatResult_TrustsPayloadUser(call) ==
    LET c == call.payload.chatId
        row == chats[c]
        read == [call EXCEPT !.existing = IF row.exists THEN row.status ELSE Undefined]
    IN  IF ~row.exists
        THEN Reject(read, "chat-error", Undefined, ChatNotFound)
        ELSE IF row.status = "CLOSED"
        THEN Reject(read, "chat-closed", c, ChatClosedReason)
        ELSE IF ~IsAdminFlag(call.payload)
        THEN Continue([read EXCEPT !.userId =
                          IF call.userId = Undefined THEN row.userId ELSE call.userId],
                      "findUser")
        ELSE IF call.userId = Undefined
        THEN Continue(read, "findAdmin")
        ELSE Validate(read)

\* mutant: the content check comes before the status check
FindChatResult_ContentFirst(call) ==
    LET c == call.payload.chatId
        row == chats[c]
        read == [call EXCEPT !.existing = IF row.exists THEN row.status ELSE Undefined]
    IN  IF ~row.exists
        THEN Reject(read, "chat-error", Undefined, ChatNotFound)
        ELSE IF ContentMissing(call.payload.content)
        THEN Reject(read, "chat-error", Undefined, ContentRequired)
        ELSE IF row.status = "CLOSED"
        THEN Reject(read, "chat-closed", c, ChatClosedReason)
        ELSE IF ~IsAdminFlag(call.payload)
        THEN Continue([read EXCEPT !.userId = row.userId], "findUser")
        ELSE IF call.userId = Undefined
        THEN Continue(read, "findAdmin")
        ELSE Validate(read)

\* prisma.chatSession.findUnique, then lines 51-101 up to the next await
FindChatResult(call) ==
    LET c == call.payload.chatId
        row == chats[c]
        read == [call EXCEPT !.existing = IF row.exists THEN row.status ELSE Undefined]
    IN  IF ~row.exists
        THEN Reject(read, "chat-error", Undefined, ChatNotFound)
        ELSE IF row.status = "CLOSED"
        THEN Reject(read, "chat-closed", c, ChatClosedReason)
        ELSE IF ~IsAdminFlag(call.payload)
        THEN Continue([read EXCEPT !.userId = row.userId], "findUser")
        ELSE IF call.userId = Undefined
        THEN Continue(read, "findAdmin")
        ELSE Validate(read)

FindChat(h) ==
    /\ handlers[h].pc = "findChat"
    /\ Commit(h, "FindChat", FindChatResult(handlers[h]))
    /\ UNCHANGED <<store, rooms, connected, timers, sends, events>>

\* mutant: isBanned is not looked at
FindUserResult_NoBanCheck(call) == Validate(call)

\* mutant: the ban is not read again once a send of the owner went through
FindUserResult_TrustsEarlierSend(call) ==
    LET user == users[call.userId]
        passed == \E k \in 1..Len(messages) :
                     messages[k].userId = call.userId /\ messages[k].src = "send"
    IN  IF user.exists /\ user.isBanned /\ ~passed
        THEN Reject(call, "user-banned", Undefined, BannedText)
        ELSE Validate(call)

\* prisma.user.findUnique (visitor): the ban check, then lines 92-101
FindUserResult(call) ==
    LET user == users[call.userId]
    IN  IF user.exists /\ user.isBanned
        THEN Reject(call, "user-banned", Undefined, BannedText)
        ELSE Validate(call)

FindUser(h) ==
    /\ handlers[h].pc = "findUser"
    /\ Commit(h, "FindUser", FindUserResult(handlers[h]))
    /\ UNCHANGED <<store, rooms, connected, timers, sends, events>>

\* mutant: without an ADMIN user the send goes on under the owner of the chat
FindAdminResult_FallsBackToOwner(call, admin) ==
    IF admin = Undefined
    THEN Validate([call EXCEPT !.userId = chats[call.payload.chatId].userId])
    ELSE Validate([call EXCEPT !.userId = admin])

\* prisma.user.findFirst({role: "ADMIN"}) for an admin send without userId
FindAdminResult(call, admin) ==
    IF admin = Undefined
    THEN Reject(call, "chat-error", Undefined, AdminNotFound)
    ELSE Validate([call EXCEPT !.userId = admin])

FindAdmin(h) ==
    /\ handlers[h].pc = "findAdmin"
    /\ \E admin \in (IF AdminUsers = {} THEN {Undefined} ELSE AdminUsers) :
          Commit(h, "FindAdmin", FindAdminResult(handlers[h], admin))
    /\ UNCHANGED <<store, rooms, connected, timers, sends, events>>

\* DEFAULT CURRENT_TIMESTAMP of messages.createdAt: the instant of the insert,
\* one tick of the database clock per inserted row
Now == nextMsgId + 1

\* mutant: the content is persisted as received
NewMessage_NoTrim(call) ==
    [id |-> nextMsgId + 1, chatId |-> call.payload.chatId, userId |-> call.userId,
     content |-> call.payload.content[1], isBot |-> IsAdminFlag(call.payload),
     createdAt |-> Now, inv |-> call.inv, src |-> "send"]

\* the row prisma.message.create inserts for the pipeline (lines 103-109)
NewMessage(call) ==
    [id |-> nextMsgId + 1, chatId |-> call.payload.chatId, userId |-> call.userId,
     content |-> Trim(call.payload.content[1]), isBot |-> IsAdminFlag(call.payload),
     createdAt |-> Now, inv |-> call.inv, src |-> "send"]

\* mutant: the insert is not checked against tables chat_sessions and users
ForeignKeysHold_Unchecked(m) == TRUE

\* the foreign keys of table messages
ForeignKeysHold(m) == chats[m.chatId].exists /\ users[m.userId].exists

CreateMessage(h) ==
    /\ handlers[h].pc = "createMessage"
    /\ LET call == handlers[h]
           m == NewMessage(call)
       IN IF ForeignKeysHold(m)
          THEN /\ messages' = Append(messages, m)
               /\ nextMsgId' = nextMsgId + 1
               /\ Commit(h, "CreateMessage",
                         Continue([call EXCEPT !.message = m], "updateSession"))
          ELSE /\ Commit(h, "CreateMessage", Catch(call))
               /\ UNCHANGED <<messages, nextMsgId>>
    /\ UNCHANGED <<users, chats, settings, rooms, connected, timers, sends, events>>

\* mutant: the update touches updatedAt only, status and closedAt stay
SessionUpdate_KeepsStatus(row) == row

\* data of prisma.chatSession.update (lines 129-136)
SessionUpdate(row) == [row EXCEPT !.status = "ACTIVE", !.closedAt = FALSE]

\* mutant: the acknowledgment is emitted before the broadcast
AfterUpdate_AckFirst(call) ==
    LET m == call.message
        c == call.payload.chatId
    IN  [call |-> [call EXCEPT
                     !.pc = IF ~IsAdminFlag(call.payload) THEN "countBot" ELSE "done",
                     !.signals = Append(@, "message-sent")],
         emits |-> <<Ack(call),
                     Broadcast(c, Response(m, SenderOf(m.isBot)))>>]

\* mutant: socket.to(chatId).emit, the room without the sender
AfterUpdate_SocketTo(call) ==
    LET m == call.message
        c == call.payload.chatId
    IN  [call |-> [call EXCEPT
                     !.pc = IF ~IsAdminFlag(call.payload) THEN "countBot" ELSE "done",
                     !.signals = Append(@, "message-sent")],
         emits |-> <<Emission("receive-message", Room(c) \ {call.socket}, c, "", 0,
                              Response(m, SenderOf(m.isBot))),
                     Ack(call)>>]

\* lines 138-156: broadcast, acknowledgment, and whether the bot count follows
AfterUpdate(call) ==
    LET m == call.message
        c == call.payload.chatId
    IN  [call |-> [call EXCEPT
                     !.pc = IF ~IsAdminFlag(call.payload) THEN "countBot" ELSE "done",
                     !.signals = Append(@, "message-sent")],
         emits |-> <<Broadcast(c, Response(m, SenderOf(m.isBot))),
                     Ack(call)>>]

UpdateSession(h) ==
    /\ handlers[h].pc = "updateSession"
    /\ LET call == handlers[h]
           c == call.payload.chatId
       IN IF chats[c].exists
          THEN /\ chats' = [chats EXCEPT ![c] = SessionUpdate(@)]
               /\ Commit(h, "UpdateSession", AfterUpdate(call))
          ELSE /\ Commit(h, "UpdateSession", Catch(call))
               /\ UNCHANGED chats
    /\ UNCHANGED <<users, messages, settings, nextMsgId, rooms, connected, timers,
                   sends, events>>

\* prisma.message.count({chatId, isBot: true}) (lines 157-164)
CountBotResult(call) ==
    IF BotCount(call.payload.chatId) = 0
    THEN Continue(call, "findSettings")
    ELSE Continue(call, "done")

CountBot(h) ==
    /\ handlers[h].pc = "countBot"
    /\ Commit(h, "CountBot", CountBotResult(handlers[h]))
    /\ UNCHANGED <<store, rooms, connected, timers, sends, events>>

\* mutant: the template is not trimmed before the emptiness test
AutoResponseOn_NoTrim(row) ==
    /\ row # None
    /\ row[1].enableAutoResponse
    /\ row[1].autoResponseMessage # None
    /\ Len(row[1].autoResponseMessage[1]) > 0

\* line 166
AutoResponseOn(row) ==
    /\ row # None
    /\ row[1].enableAutoResponse
    /\ row[1].autoResponseMessage # None
    /\ Len(row[1].autoResponseMessage[1]) > 0
    /\ Len(Trim(row[1].autoResponseMessage[1])) > 0

\* the callback handed to setTimeout: it keeps chatId and the settings row read
NewTimer(call) ==
    [inv |-> call.inv, chatId |-> call.payload.chatId,
     content |-> settings[1].autoResponseMessage[1], pc |-> "scheduled",
     adminId |-> Undefined]

\* prisma.adminSettings.findFirst (line 165), then setTimeout
FindSettings(h) ==
    /\ handlers[h].pc = "findSettings"
    /\ timers' = IF AutoResponseOn(settings)
                 THEN timers \cup {NewTimer(handlers[h])}
                 ELSE timers
    /\ Commit(h, "FindSettings", Continue(handlers[h], "done"))
    /\ UNCHANGED <<store, rooms, connected, sends, events>>

AwaitingStore == {"findChat", "findUser", "findAdmin", "createMessage",
                  "updateSession", "countBot", "findSettings"}

\* mutant: a rejected write is attempted a second time before the catch block
\* is reached, and the second attempt goes through where the first could have
StoreThrow_Retries(h) ==
    /\ handlers[h].pc \in AwaitingStore
    /\ events < MaxEvents
    /\ events' = events + 1
    /\ LET call == handlers[h]
           c == call.payload.chatId
           m == NewMessage(call)
       IN IF call.pc = "createMessage" /\ ForeignKeysHold(m)
          THEN /\ messages' = Append(messages, m)
               /\ nextMsgId' = nextMsgId + 1
               /\ chats' = chats
               /\ Commit(h, "StoreThrow",
                         Continue([call EXCEPT !.message = m], "updateSession"))
          ELSE IF call.pc = "updateSession" /\ chats[c].exists
          THEN /\ chats' = [chats EXCEPT ![c] = SessionUpdate(@)]
               /\ Commit(h, "StoreThrow", AfterUpdate(call))
               /\ UNCHANGED <<messages, nextMsgId>>
          ELSE /\ Commit(h, "StoreThrow", Catch(call))
               /\ UNCHANGED <<messages, nextMsgId, chats>>
    /\ UNCHANGED <<users, settings, rooms, connected, timers, sends>>

\* the awaited store operation rejects (store unavailable): the catch block runs
StoreThrow(h) ==
    /\ handlers[h].pc \in AwaitingStore
    /\ events < MaxEvents
    /\ events' = events + 1
    /\ Commit(h, "StoreThrow", Catch(handlers[h]))
    /\ UNCHANGED <<store, rooms, connected, timers, sends>>

-----------------------------------------------------------------------------
(* The setTimeout callback of the auto-response (lines 167-207) *)

TimerStep(name, t, emits) ==
    /\ step' = IF emits = <<>>
               THEN NoStep
               ELSE [action |-> name, inv |-> t.inv, call |-> IdleHandler, emits |-> emits]
    /\ UNCHANGED http

\* the timer fires: prisma.user.findFirst({role: "ADMIN"})
TimerFindAdmin(t) ==
    /\ t \in timers
    /\ t.pc = "scheduled"
    /\ \E admin \in (IF AdminUsers = {} THEN {Undefined} ELSE AdminUsers) :
          timers' = IF admin = Undefined
                    THEN timers \ {t}
                    ELSE (timers \ {t}) \cup {[t EXCEPT !.pc = "create", !.adminId = admin]}
    /\ TimerStep("TimerFindAdmin", t, <<>>)
    /\ UNCHANGED <<store, rooms, connected, handlers, sends, events>>

\* the row the callback inserts (lines 173-179)
AutoMessage(t) ==
    [id |-> nextMsgId + 1, chatId |-> t.chatId, userId |-> t.adminId,
     content |-> t.content, isBot |-> TRUE, createdAt |-> Now, inv |-> t.inv,
     src |-> "timer"]

\* mutant: the callback updates the session as the pipeline does
TimerCreate_BumpsSession(t) ==
    /\ t \in timers
    /\ t.pc = "create"
    /\ timers' = timers \ {t}
    /\ LET m == AutoMessage(t)
       IN IF ForeignKeysHold(m)
          THEN /\ messages' = Append(messages, m)
               /\ nextMsgId' = nextMsgId + 1
               /\ chats' = [chats EXCEPT ![t.chatId] = SessionUpdate(@)]
               /\ TimerStep("TimerCreate", t, <<Broadcast(t.chatId, Response(m, "ADMIN"))>>)
          ELSE /\ TimerStep("TimerCreate", t, <<>>)
               /\ UNCHANGED <<messages, nextMsgId, chats>>
    /\ UNCHANGED <<users, settings, rooms, connected, handlers, sends, events>>

\* prisma.message.create of the callback, then the broadcast; a rejected
\* create is an unhandled rejection of the callback: nothing is emitted
TimerCreate(t) ==
    /\ t \in timers
    /\ t.pc = "create"
    /\ timers' = timers \ {t}
    /\ LET m == AutoMessage(t)
       IN IF ForeignKeysHold(m)
          THEN /\ messages' = Append(messages, m)
               /\ nextMsgId' = nextMsgId + 1
               /\ TimerStep("TimerCreate", t, <<Broadcast(t.chatId, Response(m, "ADMIN"))>>)
          ELSE /\ TimerStep("TimerCreate", t, <<>>)
               /\ UNCHANGED <<messages, nextMsgId>>
    /\ UNCHANGED <<users, chats, settings, rooms, connected, handlers, sends, events>>

-----------------------------------------------------------------------------
(* Socket lifecycle *)

EnvStep(name, emits) ==
    /\ step' = IF emits = <<>>
               THEN NoStep
               ELSE [action |-> name, inv |-> 0, call |-> IdleHandler, emits |-> emits]
    /\ UNCHANGED http

\* mutant: the socket leaves the rooms it was in
Join_Replace(r, s, c) == [r EXCEPT ![s] = {c}]

\* socket.join(chatId): socket.io keeps the rooms of a socket as a Set
Join(r, s, c) == [r EXCEPT ![s] = @ \cup {c}]

\* socket.on("join-chat"): socket.join(chatId)
JoinChat(s, c) ==
    /\ events < MaxEvents
    /\ connected[s]
    /\ rooms' = Join(rooms, s, c)
    /\ events' = events + 1
    /\ EnvStep("JoinChat", <<>>)
    /\ UNCHANGED <<store, connected, handlers, timers, sends>>

\* mutant: the socket stays in its rooms
LeaveAll_Stay(r, s) == r

\* socket.io takes a socket whose channel is lost out of all its rooms
LeaveAll(r, s) == [r EXCEPT ![s] = {}]

\* the channel is lost: the socket leaves its rooms, then the "disconnect"
\* listener logs
Disconnect(s) ==
    /\ events < MaxEvents
    /\ connected[s]
    /\ connected' = [connected EXCEPT ![s] = FALSE]
    /\ rooms' = LeaveAll(rooms, s)
    /\ events' = events + 1
    /\ EnvStep("Disconnect", <<>>)
    /\ UNCHANGED <<store, handlers, timers, sends>>

-----------------------------------------------------------------------------
(* REST handlers that write rows the relay reads; each is taken at its write *)

Rest(name, emits) ==
    /\ events < MaxEvents
    /\ events' = events + 1
    /\ EnvStep(name, emits)

\* POST /chat/start: a guest user and its ACTIVE chat
StartChat(c) ==
    /\ ~chats[c].exists
    /\ ~users[OwnerOf(c)].exists
    /\ users' = [users EXCEPT ![OwnerOf(c)] = UserRow("USER", FALSE)]
    /\ chats' = [chats EXCEPT ![c] = ChatRow("ACTIVE", FALSE, OwnerOf(c))]
    /\ Rest("StartChat", <<>>)
    /\ UNCHANGED <<messages, settings, nextMsgId, rooms, connected, handlers, timers,
                   sends>>

\* data of the close writes: status CLOSED, closedAt now
CloseUpdate(row) == [row EXCEPT !.status = "CLOSED", !.closedAt = TRUE]

\* mutant: closing the chat clears its pending auto-response timers
VisitorClose_CancelsTimers(c) ==
    /\ chats[c].exists
    /\ chats' = [chats EXCEPT ![c] = CloseUpdate(@)]
    /\ timers' = {t \in timers : t.chatId # c}
    /\ Rest("VisitorClose", <<>>)
    /\ UNCHANGED <<users, messages, settings, nextMsgId, rooms, connected, handlers,
                   sends>>

\* POST /chat/:id/close (visitor)
VisitorClose(c) ==
    /\ chats[c].exists
    /\ chats' = [chats EXCEPT ![c] = CloseUpdate(@)]
    /\ Rest("VisitorClose", <<>>)
    /\ UNCHANGED <<users, messages, settings, nextMsgId, rooms, connected, handlers,
                   timers, sends>>

\* req.body.reason of the admin close: missing, empty, or given
Reasons == {Undefined, "", "spam"}

\* !reason
NoReason(reason) == reason = Undefined \/ reason = ""

\* mutant: the event goes to every connected socket (io.emit)
ClosedByAdmin_ToAll(c, reason) ==
    [Emission("chat-closed-by-admin", {s \in Sockets : connected[s]}, c,
              ClosedByAdminText, 0, NoResponse) EXCEPT !.reason = reason]

\* io.to(id).emit("chat-closed-by-admin", {chatId, reason, message})
ClosedByAdmin(c, reason) ==
    [Emission("chat-closed-by-admin", Room(c), c, ClosedByAdminText, 0, NoResponse)
        EXCEPT !.reason = reason]

\* POST /admin/chats/:id/close: 400 without a reason; chatSession.update
\* rejects for an unknown id (500); otherwise the write, then the event
AdminClose(c, reason) ==
    /\ IF NoReason(reason) \/ ~chats[c].exists
       THEN /\ UNCHANGED chats
            /\ Rest("AdminClose", <<>>)
       ELSE /\ chats' = [chats EXCEPT ![c] = CloseUpdate(@)]
            /\ Rest("AdminClose", <<ClosedByAdmin(c, reason)>>)
    /\ UNCHANGED <<users, messages, settings, nextMsgId, rooms, connected, handlers,
                   timers, sends>>

\* mutant: the reopen leaves closedAt as it is
ReopenUpdate_KeepsClosedAt(row) == [row EXCEPT !.status = "ACTIVE"]

\* data of POST /admin/chats/:id/reopen
ReopenUpdate(row) == [row EXCEPT !.status = "ACTIVE", !.closedAt = FALSE]

Reopen(c) ==
    /\ chats[c].exists
    /\ chats' = [chats EXCEPT ![c] = ReopenUpdate(@)]
    /\ Rest("Reopen", <<>>)
    /\ UNCHANGED <<users, messages, settings, nextMsgId, rooms, connected, handlers,
                   timers, sends>>

\* PATCH /admin/users/:id/status
SetBanned(u, b) ==
    /\ users[u].exists
    /\ users' = [users EXCEPT ![u].isBanned = b]
    /\ Rest("SetBanned", <<>>)
    /\ UNCHANGED <<chats, messages, settings, nextMsgId, rooms, connected, handlers,
                   timers, sends>>

\* ON DELETE CASCADE: the chats of a deleted user, and the messages of those
\* chats and of that author
ChatsAfterDelete(u) ==
    [c \in ChatIds |-> IF chats[c].exists /\ chats[c].userId = u THEN NoChat ELSE chats[c]]

MessagesAfterDelete(u) ==
    SelectSeq(messages, LAMBDA m : m.userId # u /\ ChatsAfterDelete(u)[m.chatId].exists)

\* DELETE /admin/users/:id
DeleteUser(u) ==
    /\ users[u].exists
    /\ users' = [users EXCEPT ![u] = NoUser]
    /\ chats' = ChatsAfterDelete(u)
    /\ messages' = MessagesAfterDelete(u)
    /\ Rest("DeleteUser", <<>>)
    /\ UNCHANGED <<settings, nextMsgId, rooms, connected, handlers, timers, sends>>

\* PATCH /admin/settings: upsert of the row "default"; an undefined field is
\* left as it is by the update, and defaulted by the create
SettingsAfterPatch(enable, template) ==
    IF settings = None
    THEN Some([enableAutoResponse |-> enable # Some(FALSE),
               autoResponseMessage |-> template])
    ELSE Some([enableAutoResponse |->
                   IF enable = None THEN settings[1].enableAutoResponse ELSE enable[1],
               autoResponseMessage |->
                   IF template = None THEN settings[1].autoResponseMessage ELSE template])

\* request bodies: switch off, blank the template, switch on with a template
PatchInputs ==
    {<<Some(FALSE), None>>, <<None, Some(Blank)>>, <<Some(TRUE), Some(Welcome)>>}

PatchSettings(enable, template) ==
    /\ settings' = SettingsAfterPatch(enable, template)
    /\ Rest("PatchSettings", <<>>)
    /\ UNCHANGED <<users, chats, messages, nextMsgId, rooms, connected, handlers,
                   timers, sends>>

-----------------------------------------------------------------------------
(* GET /chat/:id: the chat with its history; two awaited reads *)

NoRequest == [pc |-> "idle", chatId |-> Undefined, status |-> 0, messages |-> <<>>]

\* mutant: findMany without the where clause
ChatMessages_AllChats(c) == {messages[k] : k \in 1..Len(messages)}

\* prisma.message.findMany({where: {chatId}})
ChatMessages(c) == {messages[k] : k \in {j \in 1..Len(messages) : messages[j].chatId = c}}

\* orderBy: {createdAt: "asc"}
RECURSIVE OrderByCreatedAt(_)
OrderByCreatedAt(rows) ==
    IF rows = {} THEN <<>>
    ELSE LET first == CHOOSE r \in rows : \A q \in rows : r.createdAt <= q.createdAt
         IN  <<first>> \o OrderByCreatedAt(rows \ {first})

\* messages.map(msg => ({..., sender: msg.isBot ? "ADMIN" : "USER", ...}))
FormatMessage(m) ==
    [id |-> m.id, content |-> m.content, isBot |-> m.isBot, createdAt |-> m.createdAt,
     sender |-> SenderOf(m.isBot), userId |-> m.userId]

FormattedMessages(rows) == [k \in 1..Len(rows) |-> FormatMessage(rows[k])]

\* the request arrives: prisma.chatSession.findUnique, 404 when there is no row
GetChatFind(c) ==
    /\ http.pc \in {"idle", "done"}
    /\ http' = IF chats[c].exists
               THEN [NoRequest EXCEPT !.pc = "messages", !.chatId = c]
               ELSE [NoRequest EXCEPT !.pc = "done", !.chatId = c, !.status = 404]
    /\ UNCHANGED <<store, rooms, connected, handlers, timers, sends, events, step>>

\* prisma.message.findMany, then res.json({chat, messages: formattedMessages})
GetChatMessages ==
    /\ http.pc = "messages"
    /\ http' = [http EXCEPT
                  !.pc = "done", !.status = 200,
                  !.messages = FormattedMessages(OrderByCreatedAt(ChatMessages(http.chatId)))]
    /\ UNCHANGED <<store, rooms, connected, handlers, timers, sends, events, step>>

-----------------------------------------------------------------------------
(* Specification *)

SettingsRow(enable, template) ==
    Some([enableAutoResponse |-> enable, autoResponseMessage |-> template])

\* The database outlives the server: it starts with the seeded administrator,
\* one visitor with an ACTIVE chat, and either no settings row or one with the
\* auto-response configured.  No socket has joined a room.
Init ==
    /\ users = [u \in UserIds |->
                  IF u = "u1" THEN UserRow("USER", FALSE)
                  ELSE IF u = "a1" THEN UserRow("ADMIN", FALSE)
                  ELSE NoUser]
    /\ chats = [c \in ChatIds |->
                  IF c = "c1" THEN ChatRow("ACTIVE", FALSE, "u1") ELSE NoChat]
    /\ messages = <<>>
    /\ settings \in {None, SettingsRow(TRUE, Some(Welcome))}
    /\ nextMsgId = 0
    /\ rooms = [s \in Sockets |-> {}]
    /\ connected = [s \in Sockets |-> TRUE]
    /\ handlers = [h \in Slots |-> IdleHandler]
    /\ timers = {}
    /\ sends = 0
    /\ events = 0
    /\ step = NoStep
    /\ http = NoRequest

Next ==
    \/ \E s \in Sockets, p \in Payloads : SendMessage(s, p)
    \/ \E s \in Sockets : SendMalformed(s)
    \/ \E h \in Slots : FindChat(h)
    \/ \E h \in Slots : FindUser(h)
    \/ \E h \in Slots : FindAdmin(h)
    \/ \E h \in Slots : CreateMessage(h)
    \/ \E h \in Slots : UpdateSession(h)
    \/ \E h \in Slots : CountBot(h)
    \/ \E h \in Slots : FindSettings(h)
    \/ \E h \in Slots : StoreThrow(h)
    \/ \E t \in timers : TimerFindAdmin(t)
    \/ \E t \in timers : TimerCreate(t)
    \/ \E s \in Sockets, c \in ChatIds : JoinChat(s, c)
    \/ \E s \in Sockets : Disconnect(s)
    \/ \E c \in ChatIds : StartChat(c)
    \/ \E c \in ChatIds : VisitorClose(c)
    \/ \E c \in ChatIds, reason \in Reasons : AdminClose(c, reason)
    \/ \E c \in ChatIds : Reopen(c)
    \/ \E u \in UserIds, b \in BOOLEAN : SetBanned(u, b)
    \/ \E u \in UserIds : DeleteUser(u)
    \/ \E in \in PatchInputs : PatchSettings(in[1], in[2])

Spec == Init /\ [][Next]_vars

\* The sends, the timers they schedule and POST /chat/start, with GET
\* /chat/:id requests in between
HistoryNext ==
    \/ \E s \in Sockets, p \in Payloads : SendMessage(s, p)
    \/ \E h \in Slots : FindChat(h)
    \/ \E h \in Slots : FindUser(h)
    \/ \E h \in Slots : FindAdmin(h)
    \/ \E h \in Slots : CreateMessage(h)
    \/ \E h \in Slots : UpdateSession(h)
    \/ \E h \in Slots : CountBot(h)
    \/ \E h \in Slots : FindSettings(h)
    \/ \E t \in timers : TimerFindAdmin(t)
    \/ \E t \in timers : TimerCreate(t)
    \/ \E c \in ChatIds : StartChat(c)
    \/ \E c \in ChatIds : GetChatFind(c)
    \/ GetChatMessages

HistorySpec == Init /\ [][HistoryNext]_vars

-----------------------------------------------------------------------------
(* Vocabulary of the properties *)

\* in this step the activation in slot h completes the store operation it
\* was awaiting at pc (the operation did not fail)
Acts(h, pc) ==
    /\ handlers[h].pc = pc
    /\ handlers'[h] # handlers[h]
    /\ step'.action # "StoreThrow"

\* the activation in slot h ends in this step
Ends(h) == handlers[h].pc # "idle" /\ handlers'[h] = IdleHandler

FailureEvents == {"chat-error", "chat-closed", "user-banned"}

\* the rows of table messages that the activation inv inserted through the pipeline
SentBy(inv) == {k \in 1..Len(messages) : messages[k].inv = inv /\ messages[k].src = "send"}

\* C1: a send-message whose chat is read as CLOSED creates no Message, leaves
\* every ChatSession row as it is, broadcasts nothing, schedules nothing, and
\* its socket alone receives chat-closed with the chatId and the reason; this
\* is what happens to a send that reads the chat after a visitor or admin
\* close and before the status is ACTIVE again.
C1_ClosedSendRejected ==
    [][\A h \in Slots :
          LET call == handlers[h]
              c == call.payload.chatId
          IN (Acts(h, "findChat") /\ chats[c].exists /\ chats[c].status = "CLOSED") =>
                /\ Ends(h)
                /\ messages' = messages
                /\ chats' = chats
                /\ timers' = timers
                /\ step'.emits = <<Emission("chat-closed", {call.socket}, c,
                                            ChatClosedReason, 0, NoResponse)>>]_vars

\* a send on a CLOSED chat has been rejected while another socket sits in the room
C1_Witness ==
    /\ step.action = "FindChat"
    /\ step.call.existing = "CLOSED"
    /\ step.call.signals = <<"chat-closed">>
    /\ Room(step.call.payload.chatId) \ {step.call.socket} # {}

\* C2: a visitor send (not admin-flagged) on an ACTIVE chat whose owner is read
\* as banned creates no Message, does not update the ChatSession, broadcasts
\* nothing, and its socket alone receives user-banned.
C2_BannedVisitorRejected ==
    [][\A h \in Slots :
          LET call == handlers[h]
          IN (Acts(h, "findUser") /\ users[call.userId].exists
                /\ users[call.userId].isBanned) =>
                /\ ~IsAdminFlag(call.payload)
                /\ call.existing = "ACTIVE"
                /\ Ends(h)
                /\ messages' = messages
                /\ chats' = chats
                /\ timers' = timers
                /\ step'.emits = <<Emission("user-banned", {call.socket}, Undefined,
                                            BannedText, 0, NoResponse)>>]_vars

\* a visitor whose chat owner is banned has been turned away
C2_Witness ==
    /\ step.action = "FindUser"
    /\ step.call.signals = <<"user-banned">>
    /\ users[step.call.userId].isBanned
    /\ chats[step.call.payload.chatId].userId = step.call.userId

\* the earlier checks of the pipeline pass in the step slot h is about to take
PassesEarlierChecks(h) ==
    LET call == handlers[h]
        c == call.payload.chatId
    IN  \/ /\ call.pc = "findChat"
           /\ chats[c].exists /\ chats[c].status = "ACTIVE"
           /\ IsAdminFlag(call.payload) /\ call.userId # Undefined
        \/ /\ call.pc = "findUser"
           /\ ~(users[call.userId].exists /\ users[call.userId].isBanned)
        \/ /\ call.pc = "findAdmin"
           /\ AdminUsers # {}

\* C3: a send-message whose content is missing, empty or whitespace-only and
\* that passes the earlier checks (chat exists, ACTIVE, author resolved, owner
\* not banned) creates no Message, does not update the ChatSession, broadcasts
\* nothing, and its socket receives chat-error "Message content is required".
C3_ContentRequired ==
    [][\A h \in Slots :
          LET call == handlers[h]
          IN (/\ ContentMissing(call.payload.content)
              /\ PassesEarlierChecks(h)
              /\ Acts(h, call.pc)) =>
                /\ Ends(h)
                /\ messages' = messages
                /\ chats' = chats
                /\ timers' = timers
                /\ step'.emits = <<Emission("chat-error", {call.socket}, Undefined,
                                            ContentRequired, 0, NoResponse)>>]_vars

\* a whitespace-only content has been refused after the author was resolved
C3_Witness ==
    /\ step.call.pc = "done"
    /\ step.call.payload.content = Some(Blank)
    /\ step.call.existing = "ACTIVE"
    /\ step.call.userId # Undefined
    /\ step.emits # <<>>
    /\ step.emits[1].text = ContentRequired

\* C4: the Message persisted by a send that is not admin-flagged has the
\* userId of the ChatSession named by its chatId, whatever payload.userId is.
C4_VisitorAuthorIsOwner ==
    \A k \in 1..Len(messages) :
        (messages[k].src = "send" /\ ~messages[k].isBot) =>
            /\ chats[messages[k].chatId].exists
            /\ messages[k].userId = chats[messages[k].chatId].userId

\* a visitor message sent with another user's id in the payload is stored
\* under the chat's owner
C4_Witness ==
    \E h \in Slots :
        /\ handlers[h].pc = "updateSession"
        /\ ~IsAdminFlag(handlers[h].payload)
        /\ handlers[h].payload.userId = "u2"
        /\ users["u2"].exists
        /\ \E k \in SentBy(handlers[h].inv) :
              messages[k].userId = "u1" /\ chats[messages[k].chatId].userId = "u1"

\* no activation is running and no timer is pending
Quiescent == (\A h \in Slots : handlers[h].pc = "idle") /\ timers = {}

BotMessages(c) == {k \in 1..Len(messages) : messages[k].chatId = c /\ messages[k].isBot}
TimerMessages(c) ==
    {k \in 1..Len(messages) : messages[k].chatId = c /\ messages[k].src = "timer"}
VisitorMessages(c) ==
    {k \in 1..Len(messages) : messages[k].chatId = c /\ ~messages[k].isBot}
AdminSent(c) ==
    {k \in 1..Len(messages) :
        messages[k].chatId = c /\ messages[k].isBot /\ messages[k].src = "send"}

\* C5: when a visitor's first send in a chat succeeds while the chat holds no
\* bot message and the settings row enables the auto-response with a
\* non-empty template, then once the timers have fired the chat holds exactly
\* one Message with isBot = true.  Stated for the behaviours without REST
\* request, socket event or store failure, where the settings row, the ADMIN
\* user and the chat stay as they were when the send succeeded.
C5_ExactlyOneAutoResponse ==
    \A c \in ChatIds :
        (/\ Quiescent
         /\ events = 0
         /\ AutoResponseOn(settings)
         /\ VisitorMessages(c) # {}
         /\ AdminSent(c) = {}) =>
            Cardinality(BotMessages(c)) = 1

\* C6: in every reachable state the auto-response timers have created at
\* most one Message per chat.
C6_AtMostOneAutoResponse ==
    \A c \in ChatIds : Cardinality(TimerMessages(c)) <= 1

\* C7: on a successful send-message (the session update succeeds) exactly the
\* sockets joined to room chatId at that moment are addressed by one
\* receive-message, which carries the row this activation persisted, and
\* message-sent goes to the sending socket and to no other.
C7_BroadcastToRoomAckToSender ==
    [][\A h \in Slots :
          LET call == handlers[h]
              c == call.payload.chatId
          IN (Acts(h, "updateSession") /\ chats[c].exists) =>
                /\ Len(step'.emits) = 2
                /\ step'.emits[1].ev = "receive-message"
                /\ step'.emits[1].to = {s \in Sockets : c \in rooms[s]}
                /\ step'.emits[1].chatId = c
                /\ step'.emits[1].message.id = call.message.id
                /\ call.message.inv = call.inv
                /\ \A k \in SentBy(call.inv) :
                      /\ messages[k].id = step'.emits[1].message.id
                      /\ messages[k].content = step'.emits[1].message.content
                      /\ messages[k].isBot = step'.emits[1].message.isBot
                      /\ messages[k].userId = step'.emits[1].message.userId
                /\ step'.emits[2].ev = "message-sent"
                /\ step'.emits[2].to = {call.socket}
                /\ step'.emits[2].messageId = call.message.id]_vars

\* a message has been broadcast to a room that holds one socket and not the
\* other, the sender being the one outside the room
C7_Witness ==
    /\ step.action = "UpdateSession"
    /\ Len(step.emits) = 2
    /\ step.emits[1].to # {}
    /\ step.emits[1].to # Sockets
    /\ step.call.socket \notin step.emits[1].to
    /\ SentBy(step.inv) # {}

\* C8: whenever a Message is created (visitor send, admin send or timer) the
\* stored status of its chat is ACTIVE at that moment.
C8_CreatedOnlyWhileActive ==
    [][Len(messages') > Len(messages) =>
          chats[messages'[Len(messages')].chatId].status = "ACTIVE"]_vars

\* C9: an activation that has ended has emitted exactly one terminal signal
\* on its socket: message-sent, or one of chat-error, chat-closed, user-banned.
C9_OneTerminalSignal ==
    step.call.pc = "done" => Len(step.call.signals) = 1

\* C10: chat-error, chat-closed and user-banned are addressed to the socket
\* of the activation that emits them and to no other socket.
C10_FailuresArePrivate ==
    \A k \in 1..Len(step.emits) :
        step.emits[k].ev \in FailureEvents =>
            /\ step.inv # 0
            /\ step.call.socket \in Sockets
            /\ step.emits[k].to = {step.call.socket}

\* a store exception has been reported while another socket sits in the
\* room of the chat
C10_Witness ==
    /\ step.call.pc = "done"
    /\ step.emits # <<>>
    /\ step.emits[1].text = FailedToSend
    /\ step.call.payload.chatId \in ChatIds
    /\ Room(step.call.payload.chatId) \ {step.call.socket} # {}


\* the awaited store operation of slot h rejects in this step: the store is
\* unavailable, or the operation itself fails (message.create on a missing
\* chat or author, chatSession.update on a missing chat)
Throws(h) ==
    LET call == handlers[h]
    IN  /\ call.pc \in AwaitingStore
        /\ handlers'[h] # call
        /\ \/ step'.action = "StoreThrow"
           \/ call.pc = "createMessage" /\ ~ForeignKeysHold(NewMessage(call))
           \/ call.pc = "updateSession" /\ ~chats[call.payload.chatId].exists

\* what the catch block does for an activation on socket s: one chat-error
\* "Failed to send message" to s, no write, no timer, and sockets and the
\* other activations are left as they were
Caught(s) ==
    /\ step'.emits = <<Emission("chat-error", {s}, Undefined, FailedToSend, 0,
                                NoResponse)>>
    /\ store' = store
    /\ timers' = timers
    /\ connected' = connected
    /\ rooms' = rooms

\* C11: when a store operation of the pipeline throws, or the payload is
\* malformed, the exception is caught: the requester receives chat-error
\* "Failed to send message", the activation ends without a further store
\* operation (no retry), and the sockets and the other activations are left
\* able to go on.
C11_ExceptionCaught ==
    [][/\ \A h \in Slots :
             Throws(h) =>
                /\ Caught(handlers[h].socket)
                /\ Ends(h)
                /\ \A g \in Slots \ {h} : handlers'[g] = handlers[g]
       /\ step'.action = "SendMalformed" =>
                /\ Caught(step'.call.socket)
                /\ handlers' = handlers]_vars

\* a store failure after the message was persisted has been caught while
\* the other activation is still running
C11_Witness ==
    /\ step.action = "StoreThrow"
    /\ step.call.message.id # 0
    /\ step.emits[1].text = FailedToSend
    /\ \E g \in Slots : handlers[g].pc \in AwaitingStore


\* the rows of chat c in the store
RowsOf(c) == {k \in 1..Len(messages) : messages[k].chatId = c}

\* C12: GET /chat/:id of an existing chat returns every Message of that chat
\* once and no Message of another chat, in ascending createdAt order, each
\* with the stored isBot and sender "ADMIN" iff isBot; for an unknown chat it
\* answers 404 without messages.
C12_HistoryRoundTrip ==
    [][/\ (http.pc = "messages" /\ http'.pc = "done") =>
             LET c == http.chatId
                 out == http'.messages
             IN  /\ http'.status = 200
                 /\ Len(out) = Cardinality(RowsOf(c))
                 /\ \A k \in RowsOf(c) :
                       \E i \in 1..Len(out) :
                          /\ out[i].id = messages[k].id
                          /\ out[i].content = messages[k].content
                          /\ out[i].isBot = messages[k].isBot
                          /\ out[i].sender = IF messages[k].isBot THEN "ADMIN" ELSE "USER"
                 /\ \A i, j \in 1..Len(out) :
                       i < j => out[i].createdAt <= out[j].createdAt
       /\ \A c \in ChatIds :
             (http.pc # "messages" /\ http'.pc # "idle" /\ http' # http
                /\ http'.chatId = c /\ ~chats[c].exists) =>
                   http'.pc = "done" /\ http'.status = 404 /\ http'.messages = <<>>]_vars

\* a history of a visitor message and a bot message has been returned while
\* the other chat holds a message too
C12_Witness ==
    /\ http.pc = "done"
    /\ http.status = 200
    /\ Len(http.messages) = 2
    /\ \E i \in 1..2 : http.messages[i].sender = "ADMIN"
    /\ \E i \in 1..2 : http.messages[i].sender = "USER"
    /\ \E c \in ChatIds \ {http.chatId} : RowsOf(c) # {}


\* the receive-message emissions of the last step
Broadcasts == {k \in 1..Len(step.emits) : step.emits[k].ev = "receive-message"}

ToRoom == {k \in 1..Len(step.emits) :
              step.emits[k].ev \in {"receive-message", "chat-closed-by-admin"}}

\* C14: a new connection is in no room; a disconnected one is in no room and
\* no later broadcast is addressed to it; the disconnect itself changes no
\* row of the store, no activation and no timer, and emits nothing.
C14_DisconnectLeavesRoomsOnly ==
    /\ \A s \in Sockets : connected[s] /\ rooms[s] = {}
    /\ [](\A s \in Sockets :
             ~connected[s] =>
                /\ rooms[s] = {}
                /\ \A k \in ToRoom : s \notin step.emits[k].to)
    /\ [][\A s \in Sockets :
             connected'[s] # connected[s] =>
                /\ connected[s] /\ ~connected'[s]
                /\ \A t \in Sockets \ {s} :
                      rooms'[t] = rooms[t] /\ connected'[t] = connected[t]
                /\ step'.emits = <<>>
                /\ UNCHANGED <<store, handlers, timers>>]_vars

\* a message is broadcast to the room after one socket has disconnected: the
\* socket that is still connected is addressed, the other is not
C14_Witness ==
    /\ step.action = "UpdateSession"
    /\ Broadcasts # {}
    /\ \E s \in Sockets :
          /\ ~connected[s]
          /\ step.emits[1].to = Sockets \ {s}


\* the callback t finishes in this step by creating its Message and
\* broadcasting it to the room of its chat
Replies(t) ==
    /\ Len(messages') = Len(messages) + 1
    /\ LET m == messages'[Len(messages')]
       IN  /\ m.chatId = t.chatId /\ m.isBot /\ m.src = "timer" /\ m.inv = t.inv
           /\ m.content = t.content
           /\ step'.emits = <<Emission("receive-message",
                                       {s \in Sockets : t.chatId \in rooms[s]},
                                       t.chatId, "", 0, Response(m, "ADMIN"))>>

\* a pending callback leaves the timer table only by running: the step
\* changes no chat, user, socket or activation
OnlyFiringRemoves(t) ==
    t \notin timers' =>
        UNCHANGED <<users, chats, settings, rooms, connected, handlers, sends, events>>

C16_AdminCloseNotifiesRoom ==
    [][/\ \A k \in 1..Len(step'.emits) :
             step'.emits[k].ev = "chat-closed-by-admin" =>
                LET e == step'.emits[k]
                IN  /\ step'.action = "AdminClose"
                    /\ Len(step'.emits) = 1
                    /\ e.chatId \in ChatIds
                    /\ chats[e.chatId].exists
                    /\ chats'[e.chatId] = [chats[e.chatId] EXCEPT !.status = "CLOSED",
                                                                  !.closedAt = TRUE]
                    /\ e.to = {s \in Sockets : e.chatId \in rooms[s]}
                    /\ e.reason = "spam"
                    /\ e.text = ClosedByAdminText
       /\ step'.action = "AdminClose" =>
             /\ step'.emits # <<>>
             /\ step'.emits[1].ev = "chat-closed-by-admin"
       /\ (\E c \in ChatIds : chats[c].exists /\ chats[c].status = "ACTIVE"
                                /\ chats'[c].exists /\ chats'[c].status = "CLOSED")
             => (step'.emits = <<>> \/ step'.action = "AdminClose")]_vars

\* an admin close has notified the one socket that is in the chat's room
C16_Witness ==
    /\ step.action = "AdminClose"
    /\ step.emits[1].to # {}
    /\ step.emits[1].to # Sockets
    /\ chats[step.emits[1].chatId].status = "CLOSED"


\* C17: a ChatSession is created ACTIVE without closedAt, and in every
\* reachable state each ChatSession is ACTIVE or CLOSED with closedAt set
\* exactly when it is CLOSED: the closes set both, reopen and the session
\* update of a send clear both.
C17_StatusAndClosedAtAgree ==
    /\ [](\A c \in ChatIds :
             chats[c].exists =>
                /\ chats[c].status \in {"ACTIVE", "CLOSED"}
                /\ chats[c].closedAt <=> chats[c].status = "CLOSED")
    /\ [][\A c \in ChatIds :
             /\ (~chats[c].exists /\ chats'[c].exists) =>
                   chats'[c].status = "ACTIVE" /\ ~chats'[c].closedAt
             /\ (chats[c].exists /\ chats'[c].exists
                   /\ chats'[c].status # chats[c].status) =>
                   chats'[c].closedAt # chats[c].closedAt]_vars

\* a send is about to update the session of a chat that was closed after
\* the send had read it, while a second chat has been started
C17_Witness ==
    /\ chats["c1"].status = "CLOSED" /\ chats["c1"].closedAt
    /\ chats["c2"].exists /\ chats["c2"].status = "ACTIVE"
    /\ \E h \in Slots :
          handlers[h].pc = "updateSession" /\ handlers[h].payload.chatId = "c1"


\* the activation in slot h completes its session update in this step, which
\* makes the send successful
Succeeds(h) ==
    Acts(h, "updateSession") /\ chats[handlers[h].payload.chatId].exists

\* C18 as stated: on every successful send the sending socket is addressed
\* by the receive-message of its message, besides message-sent.
C18_SenderAlwaysGetsBroadcast ==
    [][\A h \in Slots :
          Succeeds(h) =>
             /\ handlers[h].socket \in step'.emits[1].to
             /\ step'.emits[2].ev = "message-sent"
             /\ handlers[h].socket \in step'.emits[2].to]_vars

\* C18, amended: the sending socket is addressed by the receive-message of
\* its message exactly when it is in room chatId at that moment; it is
\* addressed by message-sent in both cases.
C18_SenderInRoomGetsBroadcast ==
    [][\A h \in Slots :
          Succeeds(h) =>
             LET sock == handlers[h].socket
                 c == handlers[h].payload.chatId
             IN  /\ step'.emits[1].ev = "receive-message"
                 /\ step'.emits[1].message.id = handlers[h].message.id
                 /\ sock \in step'.emits[1].to <=> c \in rooms[sock]
                 /\ step'.emits[2].ev = "message-sent"
                 /\ sock \in step'.emits[2].to]_vars

\* a sender that is in the room together with the other socket has been
\* addressed by the broadcast of its own message
C18_Witness ==
    /\ step.action = "UpdateSession"
    /\ Broadcasts # {}
    /\ step.emits[1].to = Sockets
    /\ step.call.socket \in step.emits[1].to
    /\ step.emits[2].to = {step.call.socket}


\* the signal of the first check that fails for the activation in slot h,
\* given the rows its pending read finds: <<event, text>>, or <<>> when the
\* checks made after this read all pass
FirstFailing(h) ==
    LET call == handlers[h]
        c == call.payload.chatId
        admin == IsAdminFlag(call.payload)
        noContent == ContentMissing(call.payload.content)
    IN  CASE call.pc = "findChat" ->
               IF ~chats[c].exists THEN <<"chat-error", ChatNotFound>>
               ELSE IF chats[c].status = "CLOSED" THEN <<"chat-closed", ChatClosedReason>>
               ELSE IF admin /\ call.userId # Undefined /\ noContent
               THEN <<"chat-error", ContentRequired>>
               ELSE <<>>
          [] call.pc = "findUser" ->
               IF users[call.userId].exists /\ users[call.userId].isBanned
               THEN <<"user-banned", BannedText>>
               ELSE IF noContent THEN <<"chat-error", ContentRequired>>
               ELSE <<>>
          [] call.pc = "findAdmin" ->
               IF AdminUsers = {} THEN <<"chat-error", AdminNotFound>>
               ELSE IF noContent THEN <<"chat-error", ContentRequired>>
               ELSE <<>>
          [] OTHER -> <<>>

\* C19: the checks run in the order chatId, chat exists, not CLOSED, author
\* (admin lookup or ban check), content; the requester receives the signal
\* of the first check that fails and nothing else, and a rejected send
\* writes nothing, creates no ChatSession and schedules nothing.
C19_FirstFailingCheckSignalled ==
    [][/\ step'.action = "SendMessage" =>
             /\ step'.call.payload.chatId = Undefined
             /\ Len(step'.emits) = 1
             /\ step'.emits[1].ev = "chat-error"
             /\ step'.emits[1].text = ChatIdRequired
             /\ step'.emits[1].to = {step'.call.socket}
             /\ store' = store /\ timers' = timers
       /\ \A h \in Slots :
             (handlers[h].pc = "idle" /\ handlers'[h].pc # "idle") =>
                handlers'[h].payload.chatId # Undefined
       /\ \A h \in Slots :
             (handlers[h].pc \in {"findChat", "findUser", "findAdmin"}
                /\ Acts(h, handlers[h].pc)) =>
                IF FirstFailing(h) = <<>>
                THEN handlers'[h].pc = "createMessage" \/
                       (handlers[h].pc = "findChat" /\
                          handlers'[h].pc \in {"findUser", "findAdmin"})
                ELSE /\ Ends(h)
                     /\ Len(step'.emits) = 1
                     /\ step'.emits[1].ev = FirstFailing(h)[1]
                     /\ step'.emits[1].text = FirstFailing(h)[2]
                     /\ step'.emits[1].to = {handlers[h].socket}
                     /\ step'.call.signals = <<FirstFailing(h)[1]>>
                     /\ store' = store /\ timers' = timers]_vars

\* a send without content on a CLOSED chat whose owner is banned has been
\* answered with chat-closed alone
C19_Witness ==
    /\ step.action = "FindChat"
    /\ step.call.signals = <<"chat-closed">>
    /\ Len(step.emits) = 1
    /\ ContentMissing(step.call.payload.content)
    /\ ~IsAdminFlag(step.call.payload)
    /\ users[chats[step.call.payload.chatId].userId].isBanned
    /\ messages = <<>>


\* C20: a ChatSession that is CLOSED becomes ACTIVE only in the step of a
\* reopen request: no step of a send-message activation turns it ACTIVE.
C20_OnlyReopenReactivates ==
    [][\A c \in ChatIds :
          (chats[c].exists /\ chats[c].status = "CLOSED"
             /\ chats'[c].exists /\ chats'[c].status = "ACTIVE") =>
                /\ handlers' = handlers
                /\ events' = events + 1
                /\ chats' = [chats EXCEPT ![c] = ReopenUpdate(@)]]_vars


\* C21: an activation that has ended with chat-error "Failed to send
\* message" has left no Message of its own in the store and has not
\* broadcast one (the broadcast and message-sent are emitted together).
C21_FailedSendLeftNothing ==
    (/\ step.call.pc = "done"
     /\ step.emits # <<>>
     /\ step.emits[1].text = FailedToSend) =>
        /\ SentBy(step.inv) = {}
        /\ \A k \in 1..Len(step.call.signals) : step.call.signals[k] # "message-sent"


\* C22: a successful send persists its Message in one step (emitting
\* nothing), updates the ChatSession in a later step, and in that step emits
\* first receive-message and then message-sent, both with the id of the row
\* this activation created; every receive-message carries an id the store
\* has handed out.
C22_PersistUpdateBroadcastAck ==
    [][/\ \A h \in Slots :
             (Acts(h, "createMessage") /\ Len(messages') > Len(messages)) =>
                /\ step'.emits = <<>>
                /\ chats' = chats
                /\ handlers'[h].pc = "updateSession"
                /\ handlers'[h].message = messages'[Len(messages')]
                /\ handlers'[h].message.inv = handlers[h].inv
       /\ \A h \in Slots :
             Succeeds(h) =>
                LET call == handlers[h]
                    c == call.payload.chatId
                IN  /\ call.message.id \in 1..nextMsgId
                    /\ call.message.inv = call.inv
                    /\ messages' = messages
                    /\ chats'[c] = SessionUpdate(chats[c])
                    /\ Len(step'.emits) = 2
                    /\ step'.emits[1].ev = "receive-message"
                    /\ step'.emits[1].message.id = call.message.id
                    /\ step'.emits[2].ev = "message-sent"
                    /\ step'.emits[2].messageId = call.message.id
       /\ \A k \in 1..Len(step'.emits) :
             step'.emits[k].ev = "receive-message" =>
                step'.emits[k].message.id \in 1..nextMsgId'
       /\ \A k \in 1..Len(step'.emits) :
             step'.emits[k].ev = "message-sent" =>
                k = 2 /\ step'.action = "UpdateSession"]_vars

\* an admin message that is in the store has been broadcast and
\* acknowledged with its id
C22_Witness ==
    /\ step.action = "UpdateSession"
    /\ Len(step.emits) = 2
    /\ IsAdminFlag(step.call.payload)
    /\ \E k \in SentBy(step.inv) :
          /\ messages[k].id = step.emits[1].message.id
          /\ messages[k].id = step.emits[2].messageId
    /\ chats[step.call.payload.chatId].status = "ACTIVE"


\* the activation in slot g has broadcast its Message and is still running
\* (the bot count or the settings read is pending)
HasBroadcast(g) == handlers[g].pc \in {"countBot", "findSettings"}

\* C23: the receive-message of a Message is not emitted after the
\* receive-message of a Message of the same chat that was persisted later:
\* when an activation broadcasts, no other activation of that chat has
\* already broadcast a row with a higher id.
C23_BroadcastInPersistOrder ==
    [][\A h, g \in Slots :
          (/\ Succeeds(h)
           /\ g # h
           /\ HasBroadcast(g)
           /\ handlers[g].payload.chatId = handlers[h].payload.chatId) =>
              handlers[g].message.id < handlers[h].message.id]_vars


\* no visitor Message of chat c in the store was persisted before the row m
EarliestVisitorMessage(m, c) ==
    \A k \in VisitorMessages(c) : messages[k].id >= m.id

\* C24: a timer is scheduled only by the activation that persisted the first
\* visitor Message of its chat: when an activation schedules one, the store
\* holds no earlier visitor Message of that chat.
C24_OnlyFirstVisitorMessageSchedules ==
    [][\A h \in Slots :
          (\E t \in timers' \ timers : t.pc = "scheduled" /\ t.inv = handlers[h].inv) =>
             EarliestVisitorMessage(handlers[h].message, handlers[h].payload.chatId)]_vars


\* C25: a timer creates its Message only while the settings row still has
\* the auto-response enabled with a non-empty template.
C25_CreatedOnlyWhileEnabled ==
    [][(Len(messages') > Len(messages) /\ messages'[Len(messages')].src = "timer") =>
          AutoResponseOn(settings)]_vars


C27_BotAuthoredByStaff ==
    [][Len(messages') > Len(messages) =>
          LET row == messages'[Len(messages')]
          IN row.isBot => users[row.userId].role \in {"ADMIN", "AGENT"}]_vars


\* the settings row allows the auto-response: it exists, enableAutoResponse is
\* true and the template holds a character other than white space
SettingsAllow ==
    /\ settings # None
    /\ settings[1].enableAutoResponse
    /\ settings[1].autoResponseMessage # None
    /\ \E k \in 1..Len(settings[1].autoResponseMessage[1]) :
          ~IsSpace(settings[1].autoResponseMessage[1][k])

\* C28: a timer is scheduled only by the settings read of a send that was not
\* admin-flagged, whose Message was persisted and whose count of isBot
\* Messages of the chat was zero, and only when the settings row allows it;
\* an admin-flagged send or a rejected send schedules none.
C28_SchedulingGate ==
    [][/\ \A t \in timers' \ timers :
             t.pc = "scheduled" =>
                \E h \in Slots :
                   /\ Acts(h, "findSettings")
                   /\ handlers[h].inv = t.inv
                   /\ t.chatId = handlers[h].payload.chatId
                   /\ ~IsAdminFlag(handlers[h].payload)
                   /\ handlers[h].message.id # 0
                   /\ handlers[h].signals = <<"message-sent">>
                   /\ SettingsAllow
       /\ \A h \in Slots :
             /\ (Acts(h, "countBot") /\ handlers'[h].pc = "findSettings") =>
                   BotCount(handlers[h].payload.chatId) = 0
             /\ handlers'[h].pc = "findSettings" => handlers[h].pc \in {"countBot", "findSettings"}
             /\ handlers'[h].pc = "countBot" =>
                   \/ handlers[h].pc = "countBot"
                   \/ Acts(h, "updateSession") /\ ~IsAdminFlag(handlers[h].payload)]_vars

\* the settings read of a visitor send has just scheduled the timer
C28_Witness ==
    /\ step.action = "FindSettings"
    /\ \E t \in timers : t.pc = "scheduled" /\ t.inv = step.inv
    /\ SettingsAllow


\* C29: when message.create or chatSession.update of a send fails, that
\* activation ends there: it broadcasts nothing, emits no message-sent,
\* schedules no timer, and the write is not attempted again (no row is
\* inserted or updated in that step, and the activation awaits nothing more).
C29_FailedWriteAborts ==
    [][\A h \in Slots :
          (Throws(h) /\ handlers[h].pc \in {"createMessage", "updateSession"}) =>
             /\ Ends(h)
             /\ \A k \in 1..Len(step'.emits) :
                   step'.emits[k].ev \notin {"receive-message", "message-sent"}
             /\ "message-sent" \notin {handlers[h].signals[k] : k \in 1..Len(handlers[h].signals)}
             /\ timers' = timers
             /\ messages' = messages
             /\ chats' = chats]_vars

\* the session update of a send has failed after its Message was persisted,
\* while sockets sit in the room of the chat
C29_Witness ==
    /\ step.action \in {"StoreThrow", "UpdateSession"}
    /\ step.call.message.id # 0
    /\ step.call.signals = <<"chat-error">>
    /\ Room(step.call.payload.chatId) # {}


\* C30: when a send, visitor or admin, completes its session update, the row
\* of its chat has status ACTIVE and no closedAt whatever it held just before
\* (CLOSED with a closedAt included); its owner and the other chats are as
\* they were.
C30_UpdateForcesActive ==
    [][\A h \in Slots :
          LET c == handlers[h].payload.chatId
          IN Succeeds(h) =>
                /\ chats'[c].exists
                /\ chats'[c].status = "ACTIVE"
                /\ ~chats'[c].closedAt
                /\ chats'[c].userId = chats[c].userId
                /\ \A d \in ChatIds \ {c} : chats'[d] = chats[d]]_vars

\* an admin-flagged send has persisted its Message and awaits the session
\* update of a chat that has been closed in the meantime
C30_Witness ==
    \E h \in Slots :
       /\ handlers[h].pc = "updateSession"
       /\ IsAdminFlag(handlers[h].payload)
       /\ handlers[h].message.id # 0
       /\ chats[handlers[h].payload.chatId].exists
       /\ chats[handlers[h].payload.chatId].status = "CLOSED"
       /\ chats[handlers[h].payload.chatId].closedAt


\* the callback t inserts its Message in this step
TimerInserts(t) ==
    /\ t \in timers /\ t \notin timers'
    /\ Len(messages') > Len(messages)
    /\ messages'[Len(messages')].src = "timer"
    /\ messages'[Len(messages')].inv = t.inv

\* C31: the step in which the timer callback creates its Message inserts
\* exactly that one row and emits exactly one receive-message to the room of
\* the chat; every ChatSession row (status and closedAt included), every
\* user, the settings, the sockets and the activations are as before, and
\* no message-sent or other event goes to a single connection.  The lookup
\* of the ADMIN user that precedes it changes nothing but the callback.
C31_CallbackFrame ==
    [][\A t \in timers :
          /\ TimerInserts(t) =>
                /\ messages' = Append(messages, messages'[Len(messages')])
                /\ chats' = chats
                /\ users' = users /\ settings' = settings
                /\ rooms' = rooms /\ connected' = connected
                /\ handlers' = handlers
                /\ Len(step'.emits) = 1
                /\ step'.emits[1].ev = "receive-message"
                /\ step'.emits[1].to = Room(t.chatId)
          /\ (t.pc = "scheduled" /\ t \notin timers') =>
                /\ store' = store
                /\ step'.emits = <<>>]_vars

\* the callback has created and broadcast its Message for a chat that is
\* CLOSED with its closedAt, while a connected socket is outside the room
C31_Witness ==
    /\ step.action = "TimerCreate"
    /\ Len(step.emits) = 1
    /\ messages[Len(messages)].src = "timer"
    /\ chats[step.emits[1].chatId].status = "CLOSED"
    /\ chats[step.emits[1].chatId].closedAt
    /\ \E s \in Sockets : connected[s] /\ s \notin step.emits[1].to


\* r is s without its leading and trailing white space
IsTrimOf(r, s) ==
    \E i \in 1..Len(s) + 1 :
       \E j \in 0..Len(s) :
          /\ r = SubSeq(s, i, j)
          /\ \A k \in 1..Len(s) : (k < i \/ k > j) => IsSpace(s[k])
          /\ r # <<>> => ~IsSpace(r[1]) /\ ~IsSpace(r[Len(r)])

\* C32: the row a send inserts has the payload's content without leading
\* and trailing white space, the payload's chatId, and isBot exactly when the
\* send is admin-flagged; the copy broadcast when the send succeeds has the
\* row's content and isBot, and sender "ADMIN" exactly when isBot is true
\* ("USER" otherwise).
C32_PersistedAndBroadcastFields ==
    [][\A h \in Slots :
          LET call == handlers[h]
              row == messages'[Len(messages')]
          IN /\ (Acts(h, "createMessage") /\ Len(messages') > Len(messages)) =>
                   /\ row.inv = call.inv /\ row.src = "send"
                   /\ IsTrimOf(row.content, call.payload.content[1])
                   /\ row.content # <<>>
                   /\ row.chatId = call.payload.chatId
                   /\ row.isBot <=> (call.payload.sender = "ADMIN" \/ call.payload.isBot = TRUE)
                   /\ handlers'[h].message = row
             /\ Succeeds(h) =>
                   /\ step'.emits[1].ev = "receive-message"
                   /\ step'.emits[1].message.content = call.message.content
                   /\ step'.emits[1].message.isBot = call.message.isBot
                   /\ step'.emits[1].message.sender \in {"ADMIN", "USER"}
                   /\ step'.emits[1].message.sender = "ADMIN" <=> call.message.isBot]_vars

\* a send flagged by isBot alone, with padded content, has been persisted
\* trimmed and broadcast with sender "ADMIN"
C32_Witness ==
    /\ step.action = "UpdateSession"
    /\ step.call.payload.isBot /\ step.call.payload.sender = "USER"
    /\ step.call.payload.content = Some(Hi)
    /\ step.emits[1].message.content = <<"h", "i">>
    /\ step.emits[1].message.sender = "ADMIN"
    /\ \E k \in 1..Len(messages) :
          messages[k].id = step.emits[1].message.id /\ messages[k].content = <<"h", "i">>


\* the chats that belong to user u
ChatsOf(u) == {c \in ChatIds : chats[c].exists /\ chats[c].userId = u}

\* C33: every Message references an existing ChatSession and an existing
\* User; a row is inserted only while its chat and its author exist, so a send
\* or a callback whose chat or author has gone inserts none; and deleting a
\* user removes the user's chats, every Message of those chats and every
\* Message the user wrote, and no other row.
C33_MessagesReferenceExistingRows ==
    /\ [](\A k \in 1..Len(messages) :
             chats[messages[k].chatId].exists /\ users[messages[k].userId].exists)
    /\ [][/\ Len(messages') > Len(messages) =>
               /\ chats[messages'[Len(messages')].chatId].exists
               /\ users[messages'[Len(messages')].userId].exists
          /\ \A h \in Slots :
                (Acts(h, "createMessage")
                   /\ (~chats[handlers[h].payload.chatId].exists
                         \/ ~users[handlers[h].userId].exists)) =>
                   messages' = messages /\ Ends(h)
          /\ \A t \in timers :
                (t.pc = "create" /\ t \notin timers'
                   /\ (~chats[t.chatId].exists \/ ~users[t.adminId].exists)) =>
                   messages' = messages
          /\ \A u \in UserIds :
                (users[u].exists /\ ~users'[u].exists) =>
                   /\ \A c \in ChatsOf(u) : ~chats'[c].exists
                   /\ \A c \in ChatIds \ ChatsOf(u) : chats'[c] = chats[c]
                   /\ \A k \in 1..Len(messages') :
                         messages'[k].userId # u /\ messages'[k].chatId \notin ChatsOf(u)
                   /\ \A k \in 1..Len(messages) :
                         (messages[k].userId # u /\ messages[k].chatId \notin ChatsOf(u)) =>
                            \E j \in 1..Len(messages') : messages'[j] = messages[k]]_vars

\* a send whose chat was deleted with its owner after the send had read it
\* has inserted nothing, while the Messages of another chat are still stored
C33_Witness ==
    /\ step.action = "CreateMessage"
    /\ step.call.signals = <<"chat-error">>
    /\ ~chats[step.call.payload.chatId].exists
    /\ Len(messages) > 0
    /\ \A k \in 1..Len(messages) : messages[k].chatId # step.call.payload.chatId


\* C34: no Message is inserted under an author whose isBanned flag is set at
\* the moment of the insert.
C34_NoMessageByBannedAuthor ==
    [][Len(messages') > Len(messages) =>
          ~users[messages'[Len(messages')].userId].isBanned]_vars


\* the activation in slot h ends in this step with the event ev on its socket
EndsWith(h, ev) == Ends(h) /\ step'.emits[1].ev = ev

\* C35: what a visitor send does at its two reads is fixed by its payload and
\* by the rows it reads in that step, whatever happened on its connection
\* before.  At the chat read: chat-error exactly when the chat is missing,
\* chat-closed exactly when it is CLOSED, and it goes on to the ban read
\* otherwise.  At the ban read: user-banned exactly when the owner is banned
\* at that moment; otherwise the content check of the payload decides between
\* chat-error and the insert.  So a send that reads a ban or a close is
\* turned away after earlier sends went through, and a send that reads the
\* chat ACTIVE and the owner not banned is taken again.
C35_OutcomeFromPayloadAndStore ==
    [][\A h \in Slots :
          LET call == handlers[h]
              row == chats[call.payload.chatId]
              banned == users[call.userId].exists /\ users[call.userId].isBanned
              blank == ContentMissing(call.payload.content)
          IN ~IsAdminFlag(call.payload) =>
                /\ Acts(h, "findChat") =>
                      /\ EndsWith(h, "chat-error") <=> ~row.exists
                      /\ EndsWith(h, "chat-closed") <=> (row.exists /\ row.status = "CLOSED")
                      /\ (handlers'[h].pc = "findUser" /\ handlers'[h].userId = row.userId)
                            <=> (row.exists /\ row.status # "CLOSED")
                      /\ store' = store /\ timers' = timers
                /\ Acts(h, "findUser") =>
                      /\ EndsWith(h, "user-banned") <=> banned
                      /\ EndsWith(h, "chat-error") <=> (~banned /\ blank)
                      /\ handlers'[h].pc = "createMessage" <=> (~banned /\ ~blank)
                      /\ store' = store /\ timers' = timers]_vars

\* the second send of the only connected socket has been refused as banned,
\* while the Message of the first send of the same chat is in the store
C35_Witness ==
    /\ step.action = "FindUser"
    /\ step.inv = 2
    /\ step.call.signals = <<"user-banned">>
    /\ \A s \in Sockets : connected[s] <=> s = step.call.socket
    /\ \E k \in 1..Len(messages) :
          /\ messages[k].inv = 1 /\ messages[k].src = "send" /\ ~messages[k].isBot
          /\ messages[k].chatId = step.call.payload.chatId
          /\ messages[k].userId = step.call.userId

=============================================================================
